---- MODULE Spec2Model ----
(***************************************************************************)
(* sleeper.c (security_ptraceRestrictions): main() checks its argument     *)
(* count, optionally declares a permitted tracer with                      *)
(* prctl(PR_SET_PTRACER, pid), sleeps, and returns.                        *)
(*                                                                         *)
(* The model follows main() statement by statement.  C strings are         *)
(* sequences of one-character strings; an int is a TLA+ integer in         *)
(* INT_MIN..INT_MAX; an unsigned int is a pair of 16-bit halves, because   *)
(* 2^32 is outside the integers the model checker computes with.           *)
(***************************************************************************)
EXTENDS Integers, Sequences, FiniteSets

(* ------------------------------ bounds -------------------------------- *)

\* longest argument text that is enumerated exhaustively
MaxLen == 2
\* largest argc (program name included)
MaxArgc == 4

(* --------------------------- program constants ------------------------ *)

PR_SET_PTRACER == 1499557217   \* 0x59616d61
SIGINT == 2
SIGSEGV == 11
INT_MAX == 2147483647
INT_MIN == -INT_MAX - 1
\* what getpid() returns: the process's own identifier
SelfPid == 4242

(* ------------------------------ C strings ----------------------------- *)

\* the null pointer that ends argv (argv[argc] == NULL)
Null == <<"NULL">>

Chars == {" ", "-", "1", "a"}

\* all texts of at most n characters
StrsUpTo(n) == UNION {[1..k -> Chars] : k \in 0..n}

\* further texts: the edges of int, and characters outside Chars
LongArgs ==
  { <<"0">>,
    <<"2","1","4","7","4","8","3","6","4","7">>,
    <<"2","1","4","7","4","8","3","6","4","8">>,
    <<"-","2","1","4","7","4","8","3","6","4","8">>,
    <<"-","2","1","4","7","4","8","3","6","4","9">>,
    <<"4","2","9","4","9","6","7","2","9","5">>,
    <<"+","7">>,
    <<"\t","-","1","x">>,
    <<"1","2","a","b","c">>,
    <<"-","-","1">> }

ArgTexts == StrsUpTo(MaxLen) \cup LongArgs

\* arguments after the second one
ExtraTexts == {<<>>, <<"a">>}

ProgName == <<"s","l","e","e","p","e","r">>

IsSpace(c) == c \in {" ", "\t", "\n", "\r", "\f"}

IsDigit(c) == c \in {"0","1","2","3","4","5","6","7","8","9"}

DigitVal(c) ==
  CASE c = "0" -> 0 [] c = "1" -> 1 [] c = "2" -> 2 [] c = "3" -> 3
    [] c = "4" -> 4 [] c = "5" -> 5 [] c = "6" -> 6 [] c = "7" -> 7
    [] c = "8" -> 8 [] c = "9" -> 9

\* index of the first character that is not white space (Len(s)+1 if none)
RECURSIVE SkipSpace(_, _)
SkipSpace(s, i) ==
  IF i <= Len(s) /\ IsSpace(s[i]) THEN SkipSpace(s, i + 1) ELSE i

\* The digits from index i on, accumulated as a non-positive number so that
\* INT_MIN is reached without leaving int.  <<r>> is the value -r read so
\* far; <<>> means the number does not fit.
RECURSIVE ReadDigits(_, _, _)
ReadDigits(s, i, acc) ==
  IF i <= Len(s) /\ IsDigit(s[i])
    THEN LET d == DigitVal(s[i])
         IN IF acc < (INT_MIN + d + 9) \div 10
              THEN <<>>
              ELSE ReadDigits(s, i + 1, 10 * acc - d)
    ELSE <<acc>>

\* What atoi may return when the value does not fit an int: the C standard
\* leaves it undefined, so any int; these stand for the range.
OverflowResults == {INT_MIN, -1, 0, 1, INT_MAX}

\* faulty variant: reports text without digits as -1 instead of 0
AtoiOutcomes_errno(s) ==
  LET i == SkipSpace(s, 1)
      neg == i <= Len(s) /\ s[i] = "-"
      j == IF i <= Len(s) /\ s[i] \in {"-", "+"} THEN i + 1 ELSE i
      r == ReadDigits(s, j, 0)
  IN IF r = <<>> THEN OverflowResults
     ELSE IF ~(j <= Len(s) /\ IsDigit(s[j])) THEN {-1}
     ELSE IF neg THEN {r[1]}
     ELSE IF r[1] = INT_MIN THEN OverflowResults
     ELSE {-r[1]}

\* The values atoi(s) may return: white space, one optional sign, then the
\* longest run of decimal digits; anything after it is ignored and no digits
\* at all give 0.
AtoiOutcomes(s) ==
  LET i == SkipSpace(s, 1)
      neg == i <= Len(s) /\ s[i] = "-"
      j == IF i <= Len(s) /\ s[i] \in {"-", "+"} THEN i + 1 ELSE i
      r == ReadDigits(s, j, 0)
  IN IF r = <<>> THEN OverflowResults
     ELSE IF neg THEN {r[1]}
     ELSE IF r[1] = INT_MIN THEN OverflowResults
     ELSE {-r[1]}

(* ---------------------------- unsigned int ---------------------------- *)

Half == 65536

\* faulty variant: a negative duration is clamped to 0
ToUnsigned_clamp(n) ==
  IF n < 0 THEN [hi |-> 0, lo |-> 0]
  ELSE [hi |-> (n \div Half) % Half, lo |-> n % Half]

\* int -> unsigned int (value modulo 2^32), as its two 16-bit halves
ToUnsigned(n) == [hi |-> (n \div Half) % Half, lo |-> n % Half]

UZero == [hi |-> 0, lo |-> 0]

(* ------------------------------- state -------------------------------- *)

VARIABLES
  pc,        \* the statement main() is at
  argc,      \* main's argc
  argv,      \* main's argv: 0..argc -> text, argv[argc] = Null
  pid,       \* main's local: <<>> until assigned, then <<value>>
  secs,      \* the value of atoi(argv[2]): <<>> until evaluated
  stderr,    \* what has been written to the error stream
  calls,     \* the system and library calls issued so far, in order
  prctlRet,  \* what prctl returned: <<>> until it returns
  sleepRet,  \* what sleep returned: <<>> until it returns
  sigint,    \* how the process treated its own SIGINT: <<>> until sent
  status     \* how the process ended: [how, code]

vars == <<pc, argc, argv, pid, secs, stderr, calls, prctlRet, sleepRet,
          sigint, status>>

Running == [how |-> "running", code |-> 0]
Exited(c) == [how |-> "exited", code |-> c]
Signaled(s) == [how |-> "signaled", code |-> s]

Call(f, a) == [fn |-> f, args |-> a]

CallsOf(f) == {i \in 1..Len(calls) : calls[i].fn = f}

\* The argument vectors of a given argc: argv[0] is the program name,
\* argv[1] and argv[2] are free texts, later ones are extras, and
\* argv[argc] is the null pointer.
ArgvSets(n) ==
  {[i \in 0..n |->
      IF i = n THEN Null
      ELSE IF i = 0 THEN ProgName
      ELSE IF i = 1 THEN a1
      ELSE IF i = 2 THEN a2
      ELSE ex[i]] :
     a1 \in (IF n > 1 THEN ArgTexts ELSE {<<>>}),
     a2 \in (IF n > 2 THEN ArgTexts ELSE {<<>>}),
     ex \in [3..(n - 1) -> ExtraTexts]}

Init ==
  /\ pc = "check_argc"
  /\ argc \in 0..MaxArgc
  /\ argv \in ArgvSets(argc)
  /\ pid = <<>>
  /\ secs = <<>>
  /\ stderr = <<>>
  /\ calls = <<>>
  /\ prctlRet = <<>>
  /\ sleepRet = <<>>
  /\ sigint = <<>>
  /\ status = Running

(* ------------------------------ main() ------------------------------- *)

\* faulty variant: one argument is taken to be enough
TooFewArgs_offByOne(n) == n < 2

\* if (argc<3)
TooFewArgs(n) == n < 3

\* faulty variant: the signal is sent without the message before it
UsageEntry_signalFirst == "kill"

\* the first statement of the usage block
UsageEntry == "usage"

CheckArgc ==
  /\ pc = "check_argc"
  /\ pc' = IF TooFewArgs(argc) THEN UsageEntry ELSE "parse_pid"
  /\ UNCHANGED <<argc, argv, pid, secs, stderr, calls, prctlRet, sleepRet,
                 sigint, status>>

\* fprintf(stderr,"Usage: %s TRACER_PID SLEEP_SECONDS\n", argv[0]);
\* With argc = 0, argv[0] is the null pointer and %s of it is undefined:
\* the C library prints "(null)" or the process faults.
PrintUsage ==
  /\ pc = "usage"
  /\ \/ /\ argv[0] # Null
        /\ stderr' = Append(stderr, [fmt |-> "Usage", prog |-> argv[0]])
        /\ pc' = "kill"
        /\ UNCHANGED status
     \/ /\ argv[0] = Null
        /\ stderr' = Append(stderr, [fmt |-> "Usage", prog |-> Null])
        /\ pc' = "kill"
        /\ UNCHANGED status
     \/ /\ argv[0] = Null
        /\ pc' = "ended"
        /\ status' = Signaled(SIGSEGV)
        /\ UNCHANGED stderr
  /\ UNCHANGED <<argc, argv, pid, secs, calls, prctlRet, sleepRet, sigint>>

\* How a process can be treating SIGINT when it signals itself: the default
\* action (termination), ignored or blocked (both inherited from the
\* parent), or stopped under a tracer that then passes or drops the signal.
SigintFates == {"default", "ignored", "blocked", "tracer_passes",
                "tracer_drops"}

Fatal(f) == f \in {"default", "tracer_passes"}

\* faulty variant: the return is missing and control falls into the parse
AfterKill_fallThrough == "parse_pid"

\* the statement reached when kill has returned
AfterKill == "return1"

\* kill(getpid(), SIGINT);  an unblocked signal sent to oneself is delivered
\* before kill returns
KillSelf ==
  /\ pc = "kill"
  /\ calls' = Append(calls, Call("kill", <<SelfPid, SIGINT>>))
  /\ \E f \in SigintFates :
       /\ sigint' = <<f>>
       /\ IF Fatal(f)
            THEN pc' = "ended" /\ status' = Signaled(SIGINT)
            ELSE pc' = AfterKill /\ UNCHANGED status
  /\ UNCHANGED <<argc, argv, pid, secs, stderr, prctlRet, sleepRet>>

\* return 1;
UsageStatus == 1

Return1 ==
  /\ pc = "return1"
  /\ pc' = "ended"
  /\ status' = Exited(UsageStatus)
  /\ UNCHANGED <<argc, argv, pid, secs, stderr, calls, prctlRet, sleepRet,
                 sigint>>

\* faulty variant: the declaration is skipped
AfterParsePid_noDeclare == "sleep"

\* the statement after the assignment to pid
AfterParsePid == "test_pid"

\* pid = atoi(argv[1]);  argc >= 3 here, so argv[1] is a string
ParsePid ==
  /\ pc = "parse_pid"
  /\ \E v \in AtoiOutcomes(argv[1]) : pid' = <<v>>
  /\ pc' = AfterParsePid
  /\ UNCHANGED <<argc, argv, secs, stderr, calls, prctlRet, sleepRet, sigint,
                 status>>

\* faulty variant: only positive identifiers are declared
WantsTracer_positive(p) == p > 0

\* if (pid != -1)
WantsTracer(p) == p # -1

TestPid ==
  /\ pc = "test_pid"
  /\ pc' = IF WantsTracer(pid[1]) THEN "prctl" ELSE "sleep"
  /\ UNCHANGED <<argc, argv, pid, secs, stderr, calls, prctlRet, sleepRet,
                 sigint, status>>

\* what prctl can return: 0, or -1 with errno set
PrctlResults == {0, -1}

\* faulty variant: a failed prctl ends the program with status 1
AfterPrctl_checked(r) == IF r = 0 THEN "sleep" ELSE "return1"

\* the statement reached after prctl returned r
AfterPrctl(r) == "sleep"

\* prctl(PR_SET_PTRACER, pid, 0, 0, 0);  the result is discarded
DeclareTracer ==
  /\ pc = "prctl"
  /\ calls' = Append(calls, Call("prctl", <<PR_SET_PTRACER, pid[1], 0, 0, 0>>))
  /\ \E r \in PrctlResults :
       /\ prctlRet' = <<r>>
       /\ pc' = AfterPrctl(r)
  /\ UNCHANGED <<argc, argv, pid, secs, stderr, sleepRet, sigint, status>>

\* sleep(atoi(argv[2]));  the int is converted to sleep's unsigned int;
\* argc >= 3 here, so argv[2] is a string
CallSleep ==
  /\ pc = "sleep"
  /\ \E v \in AtoiOutcomes(argv[2]) :
       /\ secs' = <<v>>
       /\ calls' = Append(calls, Call("sleep", <<ToUnsigned(v)>>))
  /\ pc' = "sleeping"
  /\ UNCHANGED <<argc, argv, pid, stderr, prctlRet, sleepRet, sigint, status>>

\* the request of the sleep in progress
Requested == calls[Len(calls)].args[1]

\* faulty variant: an interrupted sleep is started again
AfterSleep_retry(left) == IF left = UZero THEN "return0" ELSE "sleep"

\* the statement reached after sleep returned left (the seconds not slept)
AfterSleep(left) == "return0"

\* sleep returns 0 when the time has elapsed, or the seconds left when a
\* signal ended it early; the result is discarded
SleepReturns ==
  /\ pc = "sleeping"
  /\ \E left \in {UZero, Requested} :
       /\ sleepRet' = <<left>>
       /\ pc' = AfterSleep(left)
  /\ UNCHANGED <<argc, argv, pid, secs, stderr, calls, prctlRet, sigint,
                 status>>

\* faulty variant: an interrupted sleep is reported in the status
NormalStatus_sleepLeft == IF sleepRet[1] = UZero THEN 0 ELSE 1

\* return 0;
NormalStatus == 0

Return0 ==
  /\ pc = "return0"
  /\ pc' = "ended"
  /\ status' = Exited(NormalStatus)
  /\ UNCHANGED <<argc, argv, pid, secs, stderr, calls, prctlRet, sleepRet,
                 sigint>>

Next ==
  \/ CheckArgc
  \/ PrintUsage
  \/ KillSelf
  \/ Return1
  \/ ParsePid
  \/ TestPid
  \/ DeclareTracer
  \/ CallSleep
  \/ SleepReturns
  \/ Return0

Spec == Init /\ [][Next]_vars

(* ------------------------- vocabulary of the claims ------------------- *)

Ended == pc = "ended"

UsageText == [fmt |-> "Usage", prog |-> argv[0]]

KillCall == Call("kill", <<SelfPid, SIGINT>>)

\* the statements of the usage block, and those of the normal path
UsagePcs == {"usage", "kill", "return1"}
PastDeclaration == {"sleep", "sleeping", "return0", "ended"}

(* ------------------------------- C1 ----------------------------------- *)

\* C1 as stated: every run with zero or one argument (argc 1 or 2) ends
\* having written the usage message, having sent itself SIGINT, and with
\* exit code 1.
C1_Original ==
  (Ended /\ argc \in {1, 2}) =>
     /\ stderr = <<UsageText>>
     /\ calls = <<KillCall>>
     /\ status = Exited(1)

\* C1 amended: a run with argc < 3 writes the usage message and sends itself
\* SIGINT; it then ends with exit code 1 exactly when that signal does not
\* terminate it (ignored, blocked, or dropped by a tracer), and is otherwise
\* terminated by the SIGINT; it never ends with status 0.  Only with argc = 0,
\* where the program name is a null pointer, may it fault in the message
\* instead.
C1_UsageThenSignalThenExit1OrKilled ==
  (Ended /\ argc < 3) =>
     \/ /\ stderr = <<UsageText>>
        /\ calls = <<KillCall>>
        /\ sigint # <<>>
        /\ status \in {Exited(1), Signaled(SIGINT)}
        /\ status = Signaled(SIGINT) <=> sigint[1] \in {"default", "tracer_passes"}
     \/ /\ argc = 0
        /\ stderr = <<>>
        /\ calls = <<>>
        /\ status = Signaled(SIGSEGV)

C1_Witness ==
  /\ Ended
  /\ argc = 2
  /\ stderr = <<UsageText>>
  /\ calls = <<KillCall>>
  /\ status = Signaled(SIGINT)

(* ------------------------------- C2 ----------------------------------- *)

\* C2: with at least two arguments prctl(PR_SET_PTRACER, ...) is called if
\* and only if the parsed TRACER_PID is not -1; it is called at most once,
\* with exactly the parsed TRACER_PID; with TRACER_PID -1 it is never called.
C2_TracerIffNotSentinel ==
  /\ Cardinality(CallsOf("prctl")) <= 1
  /\ \A i \in CallsOf("prctl") :
       /\ pid # <<>>
       /\ pid[1] # -1
       /\ pid[1] \in AtoiOutcomes(argv[1])
       /\ calls[i].args = <<PR_SET_PTRACER, pid[1], 0, 0, 0>>
  /\ (argc >= 3 /\ pc \in PastDeclaration) =>
       /\ pid # <<>>
       /\ (CallsOf("prctl") # {}) <=> (pid[1] # -1)

C2_Witness ==
  /\ Ended
  /\ pid # <<>>
  /\ pid[1] < -1
  /\ CallsOf("prctl") # {}
  /\ status = Exited(0)

(* ------------------------------- C3 ----------------------------------- *)

\* C3: every run with argc >= 3 that ends, ends with exit code 0, whatever
\* the texts of the arguments and however many extra arguments follow.
C3_ExitZero ==
  argc >= 3 =>
     /\ status \in {Running, Exited(0)}
     /\ Ended => status = Exited(0)

C3_Witness ==
  /\ Ended
  /\ argc = 4
  /\ argv[1] = <<"a">>
  /\ secs # <<>>
  /\ secs[1] < 0
  /\ status = Exited(0)

(* ------------------------------- C4 ----------------------------------- *)

\* C4: once sleep has returned, with nothing left or with seconds left, the
\* only statement that remains is the return of status 0; sleep is called at
\* most once, so an interrupted sleep is not resumed.
C4_SleepEndThenExitZero ==
  /\ Cardinality(CallsOf("sleep")) <= 1
  /\ sleepRet # <<>> =>
       /\ pc \in {"return0", "ended"}
       /\ Ended => status = Exited(0)

C4_Witness ==
  /\ Ended
  /\ sleepRet # <<>>
  /\ sleepRet[1] # UZero
  /\ status = Exited(0)

(* ------------------------------- C5 ----------------------------------- *)

\* C5: after prctl has returned, with 0 or with -1, nothing is written to the
\* error stream, the next statements are the sleep (with the duration parsed
\* from argv[2]) and the return, and the run ends with exit code 0.
C5_DeclarationNeverFatal ==
  prctlRet # <<>> =>
     /\ stderr = <<>>
     /\ pc \in PastDeclaration
     /\ secs # <<>> =>
          /\ secs[1] \in AtoiOutcomes(argv[2])
          /\ calls[Len(calls)] = Call("sleep", <<ToUnsigned(secs[1])>>)
     /\ Ended =>
          /\ status = Exited(0)
          /\ Cardinality(CallsOf("sleep")) = 1

C5_Witness ==
  /\ Ended
  /\ prctlRet = <<-1>>
  /\ Len(calls) = 2
  /\ calls[2].fn = "sleep"
  /\ status = Exited(0)

(* ------------------------------- C6 ----------------------------------- *)

\* C6: on the normal path the declaration precedes the sleep: whenever the
\* process is sleeping and TRACER_PID is not -1 the prctl call has been
\* issued, every prctl call precedes every sleep call, and neither is issued
\* before the argument count has been found sufficient.
C6_DeclareBeforeSleep ==
  /\ (pc = "sleeping" /\ pid[1] # -1) => CallsOf("prctl") # {}
  /\ \A i \in CallsOf("prctl") : \A j \in CallsOf("sleep") : i < j
  /\ pc = "prctl" => CallsOf("sleep") = {}
  /\ (CallsOf("prctl") \cup CallsOf("sleep")) # {} => argc >= 3

C6_Witness ==
  /\ pc = "sleeping"
  /\ pid[1] # -1
  /\ Len(calls) = 2
  /\ calls[1].fn = "prctl"
  /\ calls[2].fn = "sleep"

(* ------------------------------- C7 ----------------------------------- *)

\* C7: with argc < 3 the run stays in the usage block: no prctl call, no
\* sleep call, and neither argv[1] nor argv[2] is ever parsed.
C7_UsagePathLeavesTracingAlone ==
  argc < 3 =>
     /\ pc \in {"check_argc", "ended"} \cup UsagePcs
     /\ CallsOf("prctl") = {}
     /\ CallsOf("sleep") = {}
     /\ pid = <<>>
     /\ secs = <<>>
     /\ prctlRet = <<>>
     /\ sleepRet = <<>>

C7_Witness ==
  /\ Ended
  /\ argc < 3
  /\ calls = <<KillCall>>
  /\ status = Exited(1)

(* ------------------------------- C8 ----------------------------------- *)

\* C8: on the usage path the signal is sent only after the usage message has
\* been written, and exit code 1 is returned only after the signal has been
\* sent and has not terminated the process.
C8_UsageOrder ==
  /\ CallsOf("kill") # {} => stderr = <<UsageText>>
  /\ pc = "return1" => CallsOf("kill") # {}
  /\ status = Exited(1) =>
       /\ calls = <<KillCall>>
       /\ sigint # <<>>
       /\ sigint[1] \in {"ignored", "blocked", "tracer_drops"}
  /\ status = Signaled(SIGINT) => calls = <<KillCall>>

C8_Witness ==
  /\ status = Exited(1)
  /\ stderr = <<UsageText>>
  /\ sigint = <<"ignored">>

(* ------------------------------- C9 ----------------------------------- *)

\* s is a decimal integer: optional white space, an optional sign, then
\* digits to the end of the text
IsInteger(s) ==
  \E j \in 1..Len(s) :
     /\ \A k \in j..Len(s) : IsDigit(s[k])
     /\ \A k \in 1..(j - 1) :
          IsSpace(s[k]) \/ (k = j - 1 /\ s[k] \in {"+", "-"})

\* s starts with a decimal number: its first digit is preceded by white
\* space only, and then at most one sign
HasLeadingNumber(s) ==
  \E j \in 1..Len(s) :
     /\ IsDigit(s[j])
     /\ \A k \in 1..(j - 1) :
          IsSpace(s[k]) \/ (k = j - 1 /\ s[k] \in {"+", "-"})

\* C9 as stated: text that is not a decimal integer parses to 0, so such a
\* TRACER_PID is declared as tracer 0 and such a SLEEP_SECONDS sleeps 0
\* seconds.
C9_Original ==
  /\ (pid # <<>> /\ ~IsInteger(argv[1])) => pid = <<0>>
  /\ (secs # <<>> /\ ~IsInteger(argv[2])) => secs = <<0>>

\* C9 amended: text that does not start with a decimal number (after optional
\* white space and one optional sign) parses to 0: as TRACER_PID it is
\* declared as tracer 0, as SLEEP_SECONDS it sleeps 0 seconds, and the run
\* never enters the usage block.  Text that starts with a number followed by
\* other characters is accepted as well, but parses to that number: "1a" is
\* 1, and "-1x" after a tab is -1.
C9_NoLeadingNumberParsesToZero ==
  argc >= 3 =>
     /\ pc \notin UsagePcs
     /\ stderr = <<>>
     /\ (pid # <<>> /\ ~HasLeadingNumber(argv[1])) =>
          /\ pid = <<0>>
          /\ pc \in PastDeclaration =>
               calls[1] = Call("prctl", <<PR_SET_PTRACER, 0, 0, 0, 0>>)
     /\ (secs # <<>> /\ ~HasLeadingNumber(argv[2])) =>
          /\ secs = <<0>>
          /\ calls[Len(calls)] = Call("sleep", <<UZero>>)
     /\ (pid # <<>> /\ argv[1] = <<"1", "a">>) => pid = <<1>>
     /\ (pid # <<>> /\ argv[1] = <<"\t", "-", "1", "x">>) => pid = <<-1>>

C9_Witness ==
  /\ Ended
  /\ argc >= 3
  /\ argv[1] = <<"a">>
  /\ argv[2] = <<"-", "a">>
  /\ calls = << Call("prctl", <<PR_SET_PTRACER, 0, 0, 0, 0>>),
               Call("sleep", <<UZero>>) >>
  /\ status = Exited(0)

(* ------------------------------- C10 ---------------------------------- *)

\* C10: the duration passed to sleep is the parsed SLEEP_SECONDS n as an
\* unsigned 32-bit number: n itself when n >= 0, and 2^32 + n when n < 0
\* (with hi and lo the 16-bit halves: hi * 2^16 + lo = 2^32 + n), never 0
\* for a negative n.
C10_SleepRequestIsUnsigned32 ==
  \A i \in CallsOf("sleep") :
     LET n == secs[1]
         u == calls[i].args[1]
     IN /\ secs # <<>>
        /\ n \in AtoiOutcomes(argv[2])
        /\ u.hi \in 0..(Half - 1)
        /\ u.lo \in 0..(Half - 1)
        /\ n >= 0 => (u.hi < Half \div 2 /\ u.hi * Half + u.lo = n)
        /\ n < 0 => (u.hi >= Half \div 2 /\ (u.hi - Half) * Half + u.lo = n)

C10_Witness ==
  /\ Ended
  /\ secs = <<-1>>
  /\ calls[Len(calls)] = Call("sleep", <<[hi |-> 65535, lo |-> 65535]>>)
  /\ status = Exited(0)

====
